---- MODULE Spec2Model ----
(***************************************************************************)
(* rustis: a partitioned in-memory key-value store whose entries carry a   *)
(* remaining-read counter (src/src/repository/data_repository.rs).         *)
(*                                                                         *)
(* Keys and values are byte sequences.  A u32 is the pair <<hi, lo>> of    *)
(* its 16-bit halves, so that the whole 32-bit range and its wrap-around   *)
(* are represented exactly.                                                *)
(***************************************************************************)
EXTENDS Integers, Sequences, FiniteSets, Bags, TLC

VARIABLES data_partitions, data_locks, regex_partitions, regex_locks,
          calls, spawned, started, script, scenario

vars == <<data_partitions, data_locks, regex_partitions, regex_locks,
          calls, spawned, started, script, scenario>>

(***************************************************************************)
(* Bounds of the model.                                                    *)
(***************************************************************************)
\* calls the callers of the unscripted specification issue in total
MaxCalls == 2
\* the largest read limit a scripted write passes, and the most concurrent readers
MaxReads == 3
\* the largest read limit an unscripted call passes
MaxLimit == 1

Clients == 1..MaxReads

\* the clients that call in the unscripted specification
Callers == {1, 2}

(***************************************************************************)
(* Configuration (src/src/config/mod.rs) and constants.                    *)
(***************************************************************************)
DEFAULT_PARTITION_COUNT == 16
partition_count == 2
regex_partition_count == 1
regex_partition_capacity == 2

\* keys "ta", "tb", "tc", "x" as UTF-8 bytes
KeyTa == <<116, 97>>
KeyTb == <<116, 98>>
KeyTc == <<116, 99>>
KeyX == <<120>>
AllKeys == {KeyTa, KeyTb, KeyTc, KeyX}
Keys == {KeyTa, KeyX}
Values == {<<>>, <<7>>}
Limits == 0..MaxLimit
\* the limits match_remove is called with
Caps == {0, 1}

(***************************************************************************)
(* u32 arithmetic on <<hi, lo>>.                                           *)
(***************************************************************************)
U32(n) == <<n \div 65536, n % 65536>>

U32Leq(a, b) == a[1] < b[1] \/ (a[1] = b[1] /\ a[2] <= b[2])

\* x.wrapping_sub(1) on a u32
WrappingSub1(c) ==
    IF c[2] > 0 THEN <<c[1], c[2] - 1>>
    ELSE IF c[1] > 0 THEN <<c[1] - 1, 65535>>
    ELSE <<65535, 65535>>

(***************************************************************************)
(* Option / Result values returned to the caller.                          *)
(***************************************************************************)
None == <<"None">>
Some(v) == <<"Some", v>>
Ok(v) == <<"Ok", v>>
Err(e) == <<"Err", e>>
Unit == <<"Unit">>
Panic == <<"Panic">>
Pending == <<"Pending">>

(***************************************************************************)
(* Routing: DefaultHasher of the key, modulo the number of partitions.     *)
(* The hash is a fixed function of the key's bytes.                        *)
(***************************************************************************)
RECURSIVE SumBytes(_)
SumBytes(s) == IF s = <<>> THEN 0 ELSE Head(s) + SumBytes(Tail(s))

Hash(key) == SumBytes(key)

data_size == Cardinality(DOMAIN data_partitions)

regex_size == Cardinality(DOMAIN regex_partitions)

PartitionOf(key) == Hash(key) % data_size

(***************************************************************************)
(* Construction.                                                           *)
(***************************************************************************)
EmptyMap == [k \in {} |-> 0]

DataPartitionNew == EmptyMap

RegexMachinePartitionNew == <<>>

\* DataRepository::new: one partition per unit of the count it is given
NewDataPartitions(n) == [i \in 0..(n - 1) |-> DataPartitionNew]

NewRegexPartitions(n) == [i \in 0..(n - 1) |-> RegexMachinePartitionNew]

Unlocked == [readers |-> 0, writer |-> FALSE]

(***************************************************************************)
(* The HashMap of one partition.                                           *)
(***************************************************************************)
Entry(value, limit) == [value |-> value, limit |-> limit]

\* HashMap::insert: insert or overwrite
MapInsert(map, key, entry) ==
    [k \in DOMAIN map \cup {key} |-> IF k = key THEN entry ELSE map[k]]

\* HashMap::remove: absence is not an error
MapRemove(map, key) == [k \in DOMAIN map \ {key} |-> map[k]]

(***************************************************************************)
(* Calls.  A call is a record; pc is its position in the function body.    *)
(***************************************************************************)
Idle == [op |-> "idle", pc |-> "done", key |-> <<>>, value |-> <<>>,
         limit |-> <<0, 0>>, cap |-> 0, pattern |-> "", input |-> <<>>, idx |-> 0,
         acc |-> <<>>, cleaned |-> 0, ret |-> Pending]

\* where the body of op starts
Entry_pc(op) ==
    CASE op = "match_remove" -> "regex_lock"
      [] op \in {"load", "load_json"} -> "run"
      [] OTHER -> "lock"

NewCall(op, key, value, limit, pattern, input) ==
    [Idle EXCEPT !.op = op, !.pc = Entry_pc(op), !.key = key, !.value = value,
                 !.limit = limit, !.pattern = pattern, !.input = input]

\* the call returns ret: its arguments and locals go out of scope
Return(call, ret) == [Idle EXCEPT !.op = call.op, !.ret = ret]

\* match_remove(pattern, limit): limit is a usize, kept in cap
MatchRemoveCall(pattern, limit) ==
    [NewCall("match_remove", <<>>, <<>>, U32(0), pattern, <<>>) EXCEPT !.cap = limit]

\* a detached task: tokio::spawn(async move { ... })
Task(op, key, value, limit) ==
    [op |-> op, key |-> key, value |-> value, limit |-> limit, pc |-> "lock"]

\* a detached task that ran to its end: what it captured is dropped
Finished(t) == [Task(t.op, t.key, <<>>, U32(0)) EXCEPT !.pc = "done"]

(***************************************************************************)
(* tokio::sync::RwLock of a data partition.                                *)
(***************************************************************************)
CanRead(p) == ~data_locks[p].writer

CanWrite(p) == ~data_locks[p].writer /\ data_locks[p].readers = 0

AcquireRead(p) == [data_locks EXCEPT ![p].readers = @ + 1]

\* a read guard that is kept when the task moves on
ReleaseRead_kept(p) == data_locks

ReleaseRead(p) == [data_locks EXCEPT ![p].readers = @ - 1]

AcquireWrite(p) == [data_locks EXCEPT ![p].writer = TRUE]

\* a write guard that is never dropped
ReleaseWrite_kept(p) == data_locks

ReleaseWrite(p) == [data_locks EXCEPT ![p].writer = FALSE]

(***************************************************************************)
(* read, safe_read, lifetime_read: shared access to the key's partition.   *)
(***************************************************************************)
SharedOps == {"read", "safe_read", "lifetime_read"}

shared_lock(c) ==
    /\ calls[c].op \in SharedOps
    /\ calls[c].pc = "lock"
    /\ data_size > 0
    /\ CanRead(PartitionOf(calls[c].key))
    /\ data_locks' = AcquireRead(PartitionOf(calls[c].key))
    /\ calls' = [calls EXCEPT ![c].pc = "locked"]
    /\ UNCHANGED <<data_partitions, regex_partitions, regex_locks, spawned,
                   started, script, scenario>>

\* limit.fetch_sub(1, AcqRel): the value stored
fetch_sub(limit) == WrappingSub1(limit)

\* a removal scheduled one read early as well
ReachedZero_le1(lim) == U32Leq(lim, U32(1))

\* lim == 0: the read that schedules the removal
ReachedZero(lim) == lim = U32(0)

\* read, lines 49-59, under the read guard.  fetch_sub returns the previous
\* value; the "- 1" on a previous value of 0 overflows: a debug build
\* panics there (the counter is already stored), a release build wraps.
read(c) ==
    /\ calls[c].op = "read"
    /\ calls[c].pc = "locked"
    /\ LET key == calls[c].key
           p == PartitionOf(key)
           map == data_partitions[p]
       IN /\ data_locks' = ReleaseRead(p)
          /\ IF key \in DOMAIN map
             THEN LET prev == map[key].limit
                      lim == fetch_sub(prev)
                  IN /\ data_partitions' =
                          [data_partitions EXCEPT ![p][key].limit = lim]
                     /\ spawned' =
                          IF ReachedZero(lim)
                          THEN spawned (+) SetToBag({Task("remove", key, <<>>, U32(0))})
                          ELSE spawned
                     /\ \E ret \in IF prev = U32(0)
                                   THEN {Panic, Some(map[key].value)}
                                   ELSE {Some(map[key].value)} :
                          calls' = [calls EXCEPT ![c] = Return(@, ret)]
             ELSE /\ calls' = [calls EXCEPT ![c] = Return(@, None)]
                  /\ UNCHANGED <<data_partitions, spawned>>
    /\ UNCHANGED <<regex_partitions, regex_locks, started, script, scenario>>

\* lines 67-71: a copy of the value
value_of(map, key) == IF key \in DOMAIN map THEN Some(map[key].value) ELSE None

\* lines 79-83: limit.load(Acquire)
limit_of(map, key) == IF key \in DOMAIN map THEN Some(map[key].limit) ELSE None

\* a safe_read that consumes a read, as read does
safe_read_consuming(c) ==
    /\ calls[c].op = "safe_read"
    /\ calls[c].pc = "locked"
    /\ LET key == calls[c].key
           p == PartitionOf(key)
       IN /\ data_locks' = ReleaseRead(p)
          /\ data_partitions' =
               IF key \in DOMAIN data_partitions[p]
               THEN [data_partitions EXCEPT ![p][key].limit = WrappingSub1(@)]
               ELSE data_partitions
          /\ calls' = [calls EXCEPT ![c] =
                         Return(@, value_of(data_partitions[p], key))]
    /\ UNCHANGED <<regex_partitions, regex_locks, spawned, started, script,
                   scenario>>

safe_read(c) ==
    /\ calls[c].op = "safe_read"
    /\ calls[c].pc = "locked"
    /\ LET key == calls[c].key
           p == PartitionOf(key)
       IN /\ data_locks' = ReleaseRead(p)
          /\ calls' = [calls EXCEPT ![c] =
                         Return(@, value_of(data_partitions[p], key))]
    /\ UNCHANGED <<data_partitions, regex_partitions, regex_locks, spawned,
                   started, script, scenario>>

lifetime_read(c) ==
    /\ calls[c].op = "lifetime_read"
    /\ calls[c].pc = "locked"
    /\ LET key == calls[c].key
           p == PartitionOf(key)
       IN /\ data_locks' = ReleaseRead(p)
          /\ calls' = [calls EXCEPT ![c] =
                         Return(@, limit_of(data_partitions[p], key))]
    /\ UNCHANGED <<data_partitions, regex_partitions, regex_locks, spawned,
                   started, script, scenario>>

(***************************************************************************)
(* write, remove: exclusive access to the key's partition.  The same code  *)
(* runs in a caller's task and in a detached task.                         *)
(***************************************************************************)
ExclusiveOps == {"write", "remove"}

\* an overwrite that keeps the counter of the entry it replaces
write_map_keep(map, key, value, read_limit) ==
    MapInsert(map, key,
              IF key \in DOMAIN map THEN Entry(value, map[key].limit)
              ELSE Entry(value, read_limit))

\* write, line 91: partition.map.insert(key, (value, AtomicU32::from(read_limit)))
write_map(map, key, value, read_limit) ==
    MapInsert(map, key, Entry(value, read_limit))

\* a removal that deletes nothing
remove_map_skip(map, key) == map

\* remove, line 103: partition.map.remove(key)
remove_map(map, key) == MapRemove(map, key)

Exclusive(t, map) ==
    IF t.op = "write" THEN write_map(map, t.key, t.value, t.limit)
    ELSE remove_map(map, t.key)

exclusive_lock(c) ==
    /\ calls[c].op \in ExclusiveOps
    /\ calls[c].pc = "lock"
    /\ data_size > 0
    /\ CanWrite(PartitionOf(calls[c].key))
    /\ data_locks' = AcquireWrite(PartitionOf(calls[c].key))
    /\ calls' = [calls EXCEPT ![c].pc = "locked"]
    /\ UNCHANGED <<data_partitions, regex_partitions, regex_locks, spawned,
                   started, script, scenario>>

write(c) ==
    /\ calls[c].op = "write"
    /\ calls[c].pc = "locked"
    /\ LET p == PartitionOf(calls[c].key)
       IN /\ data_partitions' =
               [data_partitions EXCEPT ![p] = Exclusive(calls[c], @)]
          /\ data_locks' = ReleaseWrite(p)
    /\ calls' = [calls EXCEPT ![c] = Return(@, Unit)]
    /\ UNCHANGED <<regex_partitions, regex_locks, spawned, started, script,
                   scenario>>

remove(c) ==
    /\ calls[c].op = "remove"
    /\ calls[c].pc = "locked"
    /\ LET p == PartitionOf(calls[c].key)
       IN /\ data_partitions' =
               [data_partitions EXCEPT ![p] = Exclusive(calls[c], @)]
          /\ data_locks' = ReleaseWrite(p)
    /\ calls' = [calls EXCEPT ![c] = Return(@, Unit)]
    /\ UNCHANGED <<regex_partitions, regex_locks, spawned, started, script, scenario>>

detached_lock(t) ==
    /\ BagIn(t, spawned)
    /\ t.pc = "lock"
    /\ CanWrite(PartitionOf(t.key))
    /\ data_locks' = AcquireWrite(PartitionOf(t.key))
    /\ spawned' = (spawned (-) SetToBag({t}))
                    (+) SetToBag({[t EXCEPT !.pc = "locked"]})
    /\ UNCHANGED <<data_partitions, regex_partitions, regex_locks, calls,
                   started, script, scenario>>

detached(t) ==
    /\ BagIn(t, spawned)
    /\ t.pc = "locked"
    /\ LET p == PartitionOf(t.key)
       IN /\ data_partitions' = [data_partitions EXCEPT ![p] = Exclusive(t, @)]
          /\ data_locks' = ReleaseWrite(p)
    /\ spawned' = (spawned (-) SetToBag({t})) (+) SetToBag({Finished(t)})
    /\ UNCHANGED <<regex_partitions, regex_locks, calls, started, script, scenario>>

\* lines 47, 65, 77, 89, 101, 109: `hash % size` with a size of zero panics
\* (remainder with a divisor of zero), in every build
route_panic(c) ==
    /\ calls[c].pc = Entry_pc(calls[c].op)
    /\ \/ calls[c].op \in SharedOps \cup ExclusiveOps /\ data_size = 0
       \/ calls[c].op = "match_remove" /\ regex_size = 0
    /\ calls' = [calls EXCEPT ![c] = Return(@, Panic)]
    /\ UNCHANGED <<data_partitions, data_locks, regex_partitions, regex_locks,
                   spawned, started, script, scenario>>

(***************************************************************************)
(* HashMap iteration order is unspecified: every order of the keys.        *)
(***************************************************************************)
Orders(S) ==
    {o \in [1..Cardinality(S) -> S] : \A i, j \in DOMAIN o : i # j => o[i] # o[j]}

(***************************************************************************)
(* The regex crate, for the patterns of the model: "^t" (keys starting     *)
(* with t), "x" (keys containing x), "a" (keys containing a), "(" (unclosed *)
(* group: a syntax error).                                                 *)
(***************************************************************************)
Patterns == {"^t", "x", "("}

\* Regex::new(pattern) is Ok
Compiles(pattern) == pattern # "("

\* regex.is_match(key)
is_match(pattern, key) ==
    CASE pattern = "^t" -> Len(key) >= 1 /\ key[1] = 116
      [] pattern = "x" -> \E i \in DOMAIN key : key[i] = 120
      [] pattern = "a" -> \E i \in DOMAIN key : key[i] = 97
      [] OTHER -> FALSE

\* DefaultHasher of the pattern string
HashPattern(pattern) ==
    CASE pattern = "^t" -> 210
      [] pattern = "x" -> 120
      [] pattern = "a" -> 97
      [] OTHER -> 40

(***************************************************************************)
(* LruCache<String, Arc<Regex>>: the patterns, most recently used first;   *)
(* the compiled handle is a function of the pattern.                       *)
(***************************************************************************)
Contains(cache, pattern) == \E i \in DOMAIN cache : cache[i] = pattern

Promote(cache, pattern) ==
    <<pattern>> \o SelectSeq(cache, LAMBDA q : q # pattern)

\* a lookup that leaves the order of use as it is
LruGet_peek(cache, pattern) == cache

\* LruCache::get: a hit makes the pattern the most recently used
LruGet(cache, pattern) ==
    IF Contains(cache, pattern) THEN Promote(cache, pattern) ELSE cache

\* LruCache::put: evicts the least recently used entry of a full cache
LruPut(cache, pattern) ==
    IF Contains(cache, pattern) THEN Promote(cache, pattern)
    ELSE IF Len(cache) >= regex_partition_capacity
         THEN <<pattern>> \o SubSeq(cache, 1, regex_partition_capacity - 1)
         ELSE <<pattern>> \o cache

RegexPartitionOf(pattern) == HashPattern(pattern) % regex_size

\* a get_regex that caches the pattern before compiling it
get_regex_cache_first(cache, pattern) ==
    [result |-> IF Compiles(pattern) THEN Ok(pattern) ELSE Err(pattern),
     cache |-> LruPut(cache, pattern)]

\* get_regex, lines 111-124, under the mutex: the result and the cache
get_regex(cache, pattern) ==
    IF Contains(cache, pattern)
    THEN [result |-> Ok(pattern), cache |-> LruGet(cache, pattern)]
    ELSE IF Compiles(pattern)
         THEN [result |-> Ok(pattern), cache |-> LruPut(cache, pattern)]
         ELSE [result |-> Err(pattern), cache |-> cache]

(***************************************************************************)
(* match_remove.                                                           *)
(***************************************************************************)
\* line 110: partition_lock.lock()
get_regex_lock(c) ==
    /\ calls[c].op = "match_remove"
    /\ calls[c].pc = "regex_lock"
    /\ regex_size > 0
    /\ ~regex_locks[RegexPartitionOf(calls[c].pattern)]
    /\ regex_locks' = [regex_locks EXCEPT ![RegexPartitionOf(calls[c].pattern)] = TRUE]
    /\ calls' = [calls EXCEPT ![c].pc = "regex_locked"]
    /\ UNCHANGED <<data_partitions, data_locks, regex_partitions, spawned,
                   started, script, scenario>>

\* lines 111-131: get_regex returns (dropping the guard); an Err is returned
match_remove_regex(c) ==
    /\ calls[c].op = "match_remove"
    /\ calls[c].pc = "regex_locked"
    /\ LET rp == RegexPartitionOf(calls[c].pattern)
           got == get_regex(regex_partitions[rp], calls[c].pattern)
       IN /\ regex_partitions' = [regex_partitions EXCEPT ![rp] = got.cache]
          /\ regex_locks' = [regex_locks EXCEPT ![rp] = FALSE]
          /\ calls' =
               IF got.result[1] = "Err"
               THEN [calls EXCEPT ![c] = Return(@, got.result)]
               ELSE IF data_size = 0
                    THEN [calls EXCEPT ![c] = Return(@, Ok(0))]
                    ELSE [calls EXCEPT ![c].pc = "lock", ![c].idx = 0,
                                       ![c].cleaned = 0]
    /\ UNCHANGED <<data_partitions, data_locks, spawned, started, script, scenario>>

\* a scan that stops one match late
LimitReached_after(cleaned, limit) == cleaned > limit

\* line 146: the scan stops
LimitReached(cleaned, limit) == cleaned >= limit

\* lines 136-149 over the keys of one partition in iteration order:
\* the keys whose removal is spawned, the count, and whether line 147 returned
RECURSIVE scan(_, _, _, _, _, _)
scan(order, i, pattern, limit, cleaned, keys) ==
    IF i > Len(order)
    THEN [cleaned |-> cleaned, keys |-> keys, returned |-> FALSE]
    ELSE IF ~is_match(pattern, order[i])
         THEN scan(order, i + 1, pattern, limit, cleaned, keys)
         ELSE IF LimitReached(cleaned + 1, limit)
              THEN [cleaned |-> cleaned + 1, keys |-> Append(keys, order[i]),
                    returned |-> TRUE]
              ELSE scan(order, i + 1, pattern, limit, cleaned + 1,
                        Append(keys, order[i]))

RECURSIVE RemovalTasks(_)
RemovalTasks(keys) ==
    IF keys = <<>> THEN EmptyBag
    ELSE SetToBag({Task("remove", Head(keys), <<>>, U32(0))})
           (+) RemovalTasks(Tail(keys))

CrossOps == {"match_remove", "all_keys", "dump", "dump_json"}

\* partition_lock.read().await of the partition the loop is at
cross_lock(c) ==
    /\ calls[c].op \in CrossOps
    /\ calls[c].pc = "lock"
    /\ CanRead(calls[c].idx)
    /\ data_locks' = AcquireRead(calls[c].idx)
    /\ calls' = [calls EXCEPT ![c].pc = "locked"]
    /\ UNCHANGED <<data_partitions, regex_partitions, regex_locks, spawned,
                   started, script, scenario>>

\* the loop goes on to the next partition, or ends with result ret
Advance(c, fields, ret) ==
    IF calls[c].idx + 1 >= data_size
    THEN Return(fields, ret)
    ELSE [fields EXCEPT !.pc = "lock", !.idx = calls[c].idx + 1]

match_remove(c) ==
    /\ calls[c].op = "match_remove"
    /\ calls[c].pc = "locked"
    /\ \E order \in Orders(DOMAIN data_partitions[calls[c].idx]) :
         LET s == scan(order, 1, calls[c].pattern, calls[c].cap,
                       calls[c].cleaned, <<>>)
             now == [calls[c] EXCEPT !.cleaned = s.cleaned]
         IN /\ spawned' = spawned (+) RemovalTasks(s.keys)
            /\ calls' = [calls EXCEPT ![c] =
                           IF s.returned
                           THEN Return(now, Ok(s.cleaned))
                           ELSE Advance(c, now, Ok(s.cleaned))]
    /\ data_locks' = ReleaseRead(calls[c].idx)
    /\ UNCHANGED <<data_partitions, regex_partitions, regex_locks, started,
                   script, scenario>>

(***************************************************************************)
(* clean, all_keys.                                                        *)
(***************************************************************************)
Usize(n) == <<"usize", n>>

clean_lock(c) ==
    /\ calls[c].op = "clean"
    /\ calls[c].pc = "lock"
    /\ CanWrite(calls[c].idx)
    /\ data_locks' = AcquireWrite(calls[c].idx)
    /\ calls' = [calls EXCEPT ![c].pc = "locked"]
    /\ UNCHANGED <<data_partitions, regex_partitions, regex_locks, spawned,
                   started, script, scenario>>

\* a clear that leaves the entries in place
clear_skip(map) == map

\* map.clear()
clear(map) == EmptyMap

\* lines 158-160
clean(c) ==
    /\ calls[c].op = "clean"
    /\ calls[c].pc = "locked"
    /\ LET p == calls[c].idx
           n == calls[c].cleaned + Cardinality(DOMAIN data_partitions[p])
       IN /\ data_partitions' = [data_partitions EXCEPT ![p] = clear(@)]
          /\ data_locks' = ReleaseWrite(p)
          /\ calls' = [calls EXCEPT ![c] =
                         Advance(c, [calls[c] EXCEPT !.cleaned = n], Usize(n))]
    /\ UNCHANGED <<regex_partitions, regex_locks, spawned, started, script, scenario>>

\* lines 167-170
all_keys(c) ==
    /\ calls[c].op = "all_keys"
    /\ calls[c].pc = "locked"
    /\ \E order \in Orders(DOMAIN data_partitions[calls[c].idx]) :
         LET keys == calls[c].acc \o order
         IN calls' = [calls EXCEPT ![c] =
                        Advance(c, [calls[c] EXCEPT !.acc = keys], <<"keys", keys>>)]
    /\ data_locks' = ReleaseRead(calls[c].idx)
    /\ UNCHANGED <<data_partitions, regex_partitions, regex_locks, spawned,
                   started, script, scenario>>

(***************************************************************************)
(* The binary format: [8-byte big-endian length][bytes] for key and value. *)
(***************************************************************************)
\* the length written least significant byte first
to_le_bytes(n) ==
    <<n % 256, (n \div 256) % 256, (n \div 65536) % 256,
      (n \div 16777216) % 256, 0, 0, 0, 0>>

\* (n as u64).to_be_bytes(), for n below 2^31
to_be_bytes(n) ==
    <<0, 0, 0, 0, (n \div 16777216) % 256, (n \div 65536) % 256,
      (n \div 256) % 256, n % 256>>

\* u64::from_be_bytes(b) as usize.  A length of 2^30 or more stands for
\* itself only as "longer than any input": 2^30 is returned for it.
from_be_bytes(b) ==
    IF (\E i \in 1..4 : b[i] # 0) \/ b[5] >= 64
    THEN 1073741824
    ELSE b[5] * 16777216 + b[6] * 65536 + b[7] * 256 + b[8]

\* lines 179-184: one entry's record
dump_entry(key, value) ==
    to_be_bytes(Len(key)) \o key \o to_be_bytes(Len(value)) \o value

\* lines 178-185 over one partition, in iteration order
RECURSIVE dump_partition(_, _, _)
dump_partition(map, order, i) ==
    IF i > Len(order) THEN <<>>
    ELSE dump_entry(order[i], map[order[i]].value)
           \o dump_partition(map, order, i + 1)

dump(c) ==
    /\ calls[c].op = "dump"
    /\ calls[c].pc = "locked"
    /\ \E order \in Orders(DOMAIN data_partitions[calls[c].idx]) :
         LET bytes == calls[c].acc
                        \o dump_partition(data_partitions[calls[c].idx], order, 1)
         IN calls' = [calls EXCEPT ![c] =
                        Advance(c, [calls[c] EXCEPT !.acc = bytes], <<"bytes", bytes>>)]
    /\ data_locks' = ReleaseRead(calls[c].idx)
    /\ UNCHANGED <<data_partitions, regex_partitions, regex_locks, spawned,
                   started, script, scenario>>

(***************************************************************************)
(* String::from_utf8: well-formed UTF-8 (Unicode 3.9, table 3-7).          *)
(***************************************************************************)
Cont(b) == b >= 128 /\ b <= 191

RECURSIVE ValidUtf8(_)
ValidUtf8(s) ==
    IF s = <<>> THEN TRUE
    ELSE LET b == s[1]
             n == Len(s)
         IN CASE b <= 127 -> ValidUtf8(SubSeq(s, 2, n))
              [] b >= 194 /\ b <= 223 ->
                   n >= 2 /\ Cont(s[2]) /\ ValidUtf8(SubSeq(s, 3, n))
              [] b >= 224 /\ b <= 239 ->
                   /\ n >= 3
                   /\ Cont(s[2]) /\ Cont(s[3])
                   /\ (b = 224 => s[2] >= 160)
                   /\ (b = 237 => s[2] <= 159)
                   /\ ValidUtf8(SubSeq(s, 4, n))
              [] b >= 240 /\ b <= 244 ->
                   /\ n >= 4
                   /\ Cont(s[2]) /\ Cont(s[3]) /\ Cont(s[4])
                   /\ (b = 240 => s[2] >= 144)
                   /\ (b = 244 => s[2] <= 143)
                   /\ ValidUtf8(SubSeq(s, 5, n))
              [] OTHER -> FALSE

(***************************************************************************)
(* load: the parse loop, lines 204-231.  The result is the enrolled count  *)
(* and the writes spawned, in order.                                       *)
(***************************************************************************)
\* dump[cursor..cursor + n]
Slice(bytes, cursor, n) == SubSeq(bytes, cursor + 1, cursor + n)

\* cursor + len overflows a 64-bit usize, len being the u64 of the 8 bytes
\* b: the sum is 2^64 or more.  cursor is below 2^30.
add_overflows(cursor, b) ==
    /\ \A i \in 1..4 : b[i] = 255
    /\ LET lo == b[7] * 256 + b[8] + (cursor % 65536)
           hi == b[5] * 256 + b[6] + (cursor \div 65536) + (lo \div 65536)
       IN hi >= 65536

\* where parsing resumes after a key that is not text: past the whole record
skip_bad_record(bytes, cursor, key_len) ==
    LET c2 == cursor + key_len
    IN IF c2 + 8 > Len(bytes) THEN Len(bytes)
       ELSE c2 + 8 + from_be_bytes(Slice(bytes, c2, 8))

\* lines 225-228: cursor += key_len; continue
skip_bad_key(bytes, cursor, key_len) == cursor + key_len

\* When cursor + len overflows, a debug build panics on the addition (lines
\* 208, 216); a release build wraps to a sum below cursor, passes the bound
\* test, and panics on the slice dump[cursor..sum] (lines 209, 217).
RECURSIVE load_loop(_, _, _, _, _)
load_loop(bytes, default_read_limit, cursor, enrolled, tasks) ==
    LET seq_len == Len(bytes)
        out == [enrolled |-> enrolled, tasks |-> tasks, panicked |-> FALSE]
        panic == [out EXCEPT !.panicked = TRUE]
    IN IF ~(cursor + 8 <= seq_len) THEN out
       ELSE LET key_len == from_be_bytes(Slice(bytes, cursor, 8))
                c1 == cursor + 8
            IN IF add_overflows(c1, Slice(bytes, cursor, 8)) THEN panic
               ELSE IF c1 + key_len > seq_len THEN out
               ELSE IF ValidUtf8(Slice(bytes, c1, key_len))
                    THEN LET key == Slice(bytes, c1, key_len)
                             c2 == c1 + key_len
                         IN IF c2 + 8 > seq_len THEN out
                            ELSE LET value_len == from_be_bytes(Slice(bytes, c2, 8))
                                     c3 == c2 + 8
                                 IN IF add_overflows(c3, Slice(bytes, c2, 8))
                                    THEN panic
                                    ELSE IF c3 + value_len > seq_len THEN out
                                    ELSE load_loop(bytes, default_read_limit,
                                           c3 + value_len, enrolled + 1,
                                           Append(tasks,
                                             Task("write", key,
                                                  Slice(bytes, c3, value_len),
                                                  default_read_limit)))
                    ELSE load_loop(bytes, default_read_limit,
                                   skip_bad_key(bytes, c1, key_len),
                                   enrolled, tasks)

RECURSIVE TaskBag(_)
TaskBag(tasks) ==
    IF tasks = <<>> THEN EmptyBag
    ELSE SetToBag({Head(tasks)}) (+) TaskBag(Tail(tasks))

\* load has no suspension point: it parses and spawns in one go; the writes
\* spawned before a panic stay spawned
load(c) ==
    /\ calls[c].op = "load"
    /\ calls[c].pc = "run"
    /\ LET r == load_loop(calls[c].input, calls[c].limit, 0, 0, <<>>)
       IN /\ spawned' = spawned (+) TaskBag(r.tasks)
          /\ calls' = [calls EXCEPT ![c] =
                         Return(@, IF r.panicked THEN Panic ELSE Usize(r.enrolled))]
    /\ UNCHANGED <<data_partitions, data_locks, regex_partitions, regex_locks,
                   started, script, scenario>>

(***************************************************************************)
(* base64, engine STANDARD_NO_PAD: the standard alphabet, no padding       *)
(* written, none accepted.  Text is a sequence of character codes.         *)
(***************************************************************************)
\* the character of the 6-bit value v
Sym(v) ==
    IF v < 26 THEN 65 + v
    ELSE IF v < 52 THEN 97 + (v - 26)
    ELSE IF v < 62 THEN 48 + (v - 52)
    ELSE IF v = 62 THEN 43 ELSE 47

\* the 6-bit value of character ch, -1 when ch is not of the alphabet
SymValue(ch) ==
    IF ch >= 65 /\ ch <= 90 THEN ch - 65
    ELSE IF ch >= 97 /\ ch <= 122 THEN ch - 97 + 26
    ELSE IF ch >= 48 /\ ch <= 57 THEN ch - 48 + 52
    ELSE IF ch = 43 THEN 62
    ELSE IF ch = 47 THEN 63 ELSE -1

\* an encoder that pads the last group with '='
RECURSIVE encode_padded(_)
encode_padded(b) ==
    LET n == Len(b)
    IN IF n = 0 THEN <<>>
       ELSE IF n = 1
            THEN <<Sym(b[1] \div 4), Sym((b[1] % 4) * 16), 61, 61>>
       ELSE IF n = 2
            THEN <<Sym(b[1] \div 4), Sym((b[1] % 4) * 16 + b[2] \div 16),
                   Sym((b[2] % 16) * 4), 61>>
       ELSE <<Sym(b[1] \div 4), Sym((b[1] % 4) * 16 + b[2] \div 16),
              Sym((b[2] % 16) * 4 + b[3] \div 64), Sym(b[3] % 64)>>
              \o encode_padded(SubSeq(b, 4, n))

\* STANDARD_NO_PAD.encode(value)
RECURSIVE encode(_)
encode(b) ==
    LET n == Len(b)
    IN IF n = 0 THEN <<>>
       ELSE IF n = 1
            THEN <<Sym(b[1] \div 4), Sym((b[1] % 4) * 16)>>
       ELSE IF n = 2
            THEN <<Sym(b[1] \div 4), Sym((b[1] % 4) * 16 + b[2] \div 16),
                   Sym((b[2] % 16) * 4)>>
       ELSE <<Sym(b[1] \div 4), Sym((b[1] % 4) * 16 + b[2] \div 16),
              Sym((b[2] % 16) * 4 + b[3] \div 64), Sym(b[3] % 64)>>
              \o encode(SubSeq(b, 4, n))

\* the bytes of text s whose characters are all of the alphabet; the bits
\* left over in the last character must be zero
RECURSIVE decode_symbols(_)
decode_symbols(s) ==
    LET n == Len(s)
        v == [i \in 1..n |-> SymValue(s[i])]
    IN IF n = 0 THEN Ok(<<>>)
       ELSE IF n = 1 THEN Err("base64")
       ELSE IF n = 2
            THEN IF v[2] % 16 # 0 THEN Err("base64")
                 ELSE Ok(<<v[1] * 4 + v[2] \div 16>>)
       ELSE IF n = 3
            THEN IF v[3] % 4 # 0 THEN Err("base64")
                 ELSE Ok(<<v[1] * 4 + v[2] \div 16,
                           (v[2] % 16) * 16 + v[3] \div 4>>)
       ELSE LET rest == decode_symbols(SubSeq(s, 5, n))
            IN IF rest[1] = "Err" THEN rest
               ELSE Ok(<<v[1] * 4 + v[2] \div 16,
                         (v[2] % 16) * 16 + v[3] \div 4,
                         (v[3] % 4) * 64 + v[4]>> \o rest[2])

\* STANDARD_NO_PAD.decode(value): '=' and every other character outside
\* the alphabet is an error
decode(s) ==
    IF \E i \in DOMAIN s : SymValue(s[i]) = -1 THEN Err("base64")
    ELSE decode_symbols(s)

(***************************************************************************)
(* dump_json, load_json.  A HashMap<String, String> is the sequence of its *)
(* (key, text) pairs in its iteration order.                               *)
(***************************************************************************)
\* lines 193-196 over one partition, in iteration order
RECURSIVE dump_json_partition(_, _, _)
dump_json_partition(map, order, i) ==
    IF i > Len(order) THEN <<>>
    ELSE <<<<order[i], encode(map[order[i]].value)>>>>
           \o dump_json_partition(map, order, i + 1)

dump_json(c) ==
    /\ calls[c].op = "dump_json"
    /\ calls[c].pc = "locked"
    /\ \E order \in Orders(DOMAIN data_partitions[calls[c].idx]) :
         LET pairs == calls[c].acc
                        \o dump_json_partition(data_partitions[calls[c].idx], order, 1)
         IN calls' = [calls EXCEPT ![c] =
                        Advance(c, [calls[c] EXCEPT !.acc = pairs], <<"json", pairs>>)]
    /\ data_locks' = ReleaseRead(calls[c].idx)
    /\ UNCHANGED <<data_partitions, regex_partitions, regex_locks, spawned,
                   started, script, scenario>>

\* the first entry from the i-th on whose text decodes; Len + 1 if none
RECURSIVE next_decodable(_, _)
next_decodable(pairs, i) ==
    IF i > Len(pairs) THEN i
    ELSE IF decode(pairs[i][2])[1] = "Ok" THEN i
    ELSE next_decodable(pairs, i + 1)

\* lines 235-244 up to the next self.write: entries that fail to decode are
\* passed over; idx entries have been taken from the map
load_json(c) ==
    /\ calls[c].op = "load_json"
    /\ calls[c].pc = "run"
    /\ LET i == next_decodable(calls[c].input, calls[c].idx + 1)
       IN calls' = [calls EXCEPT ![c] =
                      IF i > Len(calls[c].input)
                      THEN Return(@, Usize(calls[c].cleaned))
                      ELSE [@ EXCEPT !.idx = i, !.pc = "lock",
                                     !.key = calls[c].input[i][1],
                                     !.value = decode(calls[c].input[i][2])[2]]]
    /\ UNCHANGED <<data_partitions, data_locks, regex_partitions, regex_locks,
                   spawned, started, script, scenario>>

\* line 238: self.write(..).await, at partition_lock.write().await
load_json_lock(c) ==
    /\ calls[c].op = "load_json"
    /\ calls[c].pc = "lock"
    /\ CanWrite(PartitionOf(calls[c].key))
    /\ data_locks' = AcquireWrite(PartitionOf(calls[c].key))
    /\ calls' = [calls EXCEPT ![c].pc = "locked"]
    /\ UNCHANGED <<data_partitions, regex_partitions, regex_locks, spawned,
                   started, script, scenario>>

\* lines 238-239: the write stores the entry, then enrolled += 1
load_json_write(c) ==
    /\ calls[c].op = "load_json"
    /\ calls[c].pc = "locked"
    /\ LET p == PartitionOf(calls[c].key)
       IN /\ data_partitions' =
               [data_partitions EXCEPT ![p] =
                  write_map(@, calls[c].key, calls[c].value, calls[c].limit)]
          /\ data_locks' = ReleaseWrite(p)
    /\ calls' = [calls EXCEPT ![c].pc = "run", ![c].cleaned = @ + 1,
                              ![c].key = <<>>, ![c].value = <<>>]
    /\ UNCHANGED <<regex_partitions, regex_locks, spawned, started, script, scenario>>

JsonStep(c) ==
    \/ dump_json(c)
    \/ load_json(c)
    \/ load_json_lock(c)
    \/ load_json_write(c)

(***************************************************************************)
(* The unscripted specification: every client issues any call.             *)
(***************************************************************************)
LoadInputs ==
    {dump_entry(KeyTa, <<7>>),
     dump_entry(KeyX, <<>>) \o dump_entry(KeyTa, <<7>>)}

Requests ==
    {NewCall(op, k, <<>>, U32(0), "", <<>>) :
        op \in SharedOps \cup {"remove"}, k \in Keys}
    \cup {NewCall("write", k, v, U32(l), "", <<>>) :
            k \in Keys, v \in Values, l \in Limits}
    \cup {MatchRemoveCall(p, l) : p \in Patterns, l \in Caps}
    \cup {NewCall(op, <<>>, <<>>, U32(0), "", <<>>) :
            op \in {"clean", "all_keys", "dump"}}
    \cup {NewCall("load", <<>>, <<>>, U32(MaxLimit), "", b) : b \in LoadInputs}

\* callers are interchangeable: caller 2 calls only once caller 1 has
Call(c) ==
    /\ started < MaxCalls
    /\ calls[c].pc = "done"
    /\ c = 1 \/ calls[1].op # "idle"
    /\ \E r \in Requests : calls' = [calls EXCEPT ![c] = r]
    /\ started' = started + 1
    /\ UNCHANGED <<data_partitions, data_locks, regex_partitions, regex_locks,
                   spawned, script, scenario>>

Step(c) ==
    \/ shared_lock(c)
    \/ read(c)
    \/ safe_read(c)
    \/ lifetime_read(c)
    \/ exclusive_lock(c)
    \/ write(c)
    \/ remove(c)
    \/ get_regex_lock(c)
    \/ match_remove_regex(c)
    \/ cross_lock(c)
    \/ match_remove(c)
    \/ clean_lock(c)
    \/ clean(c)
    \/ all_keys(c)
    \/ dump(c)
    \/ load(c)

Detached(t) == detached_lock(t) \/ detached(t)

Run ==
    \/ \E c \in Clients : Step(c)
    \/ \E t \in BagToSet(spawned) : Detached(t)

\* the partitions holding the entries of f, a function from keys to entries
StoreOf(f) ==
    [p \in 0..(partition_count - 1) |->
        [k \in {q \in DOMAIN f : Hash(q) % partition_count = p} |-> f[k]]]

\* the entries of the whole store, as a function from keys
Entries ==
    [k \in UNION {DOMAIN data_partitions[p] : p \in DOMAIN data_partitions} |->
        data_partitions[PartitionOf(k)][k]]

\* the limits of the entries earlier calls can have left, and of all writes
WrittenLimits == Limits \cup {1, 2}

\* store contents earlier calls can have left
InitialStores ==
    {StoreOf(EmptyMap),
     StoreOf([k \in {KeyTa} |-> Entry(<<7>>, U32(1))]),
     StoreOf([k \in {KeyTa, KeyX} |->
                IF k = KeyTa THEN Entry(<<>>, U32(2)) ELSE Entry(<<7>>, U32(1))])}

Quiet ==
    /\ data_locks = [p \in 0..(partition_count - 1) |-> Unlocked]
    /\ regex_partitions = NewRegexPartitions(regex_partition_count)
    /\ regex_locks = [p \in 0..(regex_partition_count - 1) |-> FALSE]
    /\ started = 0

Init ==
    /\ Quiet
    /\ data_partitions \in InitialStores
    /\ calls = [c \in Clients |-> Idle]
    /\ spawned = EmptyBag
    /\ script = [c \in Clients |-> <<>>]
    /\ scenario = [name |-> "none"]

Next == (\E c \in Callers : Call(c)) \/ Run

Spec == Init /\ [][Next]_vars

(***************************************************************************)
(* The scripted specification: every client issues the calls of its        *)
(* script, in order, each after the one before it has returned.            *)
(***************************************************************************)
AllDetachedDone == \A t \in BagToSet(spawned) : t.pc = "done"

Scripted(op) ==
    op \notin {"wait", "restart", "load_dumped", "load_json_dumped", "request"}

ScriptCall(c) ==
    /\ calls[c].pc = "done"
    /\ script[c] # <<>>
    /\ Scripted(Head(script[c]).op)
    /\ calls' = [calls EXCEPT ![c] = Head(script[c])]
    /\ script' = [script EXCEPT ![c] = Tail(@)]
    /\ UNCHANGED <<data_partitions, data_locks, regex_partitions, regex_locks,
                   spawned, started, scenario>>

\* the client lets every detached task run to its end
Wait(c) ==
    /\ calls[c].pc = "done"
    /\ script[c] # <<>>
    /\ Head(script[c]).op = "wait"
    /\ AllDetachedDone
    /\ calls' = [calls EXCEPT ![c] = Return(Head(script[c]), Unit)]
    /\ script' = [script EXCEPT ![c] = Tail(@)]
    /\ UNCHANGED <<data_partitions, data_locks, regex_partitions, regex_locks,
                   spawned, started, scenario>>

\* the process is started again (main.rs, line 33): an empty store; the
\* client keeps the bytes the dump returned
Restart(c) ==
    /\ calls[c].pc = "done"
    /\ script[c] # <<>>
    /\ Head(script[c]).op = "restart"
    /\ AllDetachedDone
    /\ \A d \in Clients : calls[d].pc = "done"
    /\ data_partitions' = NewDataPartitions(partition_count)
    /\ regex_partitions' = NewRegexPartitions(regex_partition_count)
    /\ spawned' = EmptyBag
    /\ calls' = [calls EXCEPT ![c] = Return(Head(script[c]), calls[c].ret)]
    /\ script' = [script EXCEPT ![c] = Tail(@)]
    /\ UNCHANGED <<data_locks, regex_locks, started, scenario>>

\* load of the bytes the client's dump returned
LoadDumped(c) ==
    /\ calls[c].pc = "done"
    /\ script[c] # <<>>
    /\ Head(script[c]).op = "load_dumped"
    /\ calls[c].ret[1] = "bytes"
    /\ calls' = [calls EXCEPT ![c] =
                   NewCall("load", <<>>, <<>>, Head(script[c]).limit, "",
                           calls[c].ret[2])]
    /\ script' = [script EXCEPT ![c] = Tail(@)]
    /\ UNCHANGED <<data_partitions, data_locks, regex_partitions, regex_locks,
                   spawned, started, scenario>>

\* the elements of sequence s
Range(s) == {s[i] : i \in DOMAIN s}

\* load_json of the pairs the client's dump_json returned, together with the
\* pairs the script adds to the payload, as a map in any iteration order
LoadJsonDumped(c) ==
    /\ calls[c].pc = "done"
    /\ script[c] # <<>>
    /\ Head(script[c]).op = "load_json_dumped"
    /\ calls[c].ret[1] = "json"
    /\ \E payload \in Orders(Range(calls[c].ret[2]) \cup Range(Head(script[c]).input)) :
         calls' = [calls EXCEPT ![c] =
                     NewCall("load_json", <<>>, <<>>, Head(script[c]).limit, "",
                             payload)]
    /\ script' = [script EXCEPT ![c] = Tail(@)]
    /\ UNCHANGED <<data_partitions, data_locks, regex_partitions, regex_locks,
                   spawned, started, scenario>>

(***************************************************************************)
(* The HTTP handlers that write (src/src/api/mod.rs): the lifetime query   *)
(* parameter, an Option<u32>, becomes the read limit given to the store.   *)
(***************************************************************************)
\* u16::MAX as u32
U16_MAX == U32(65535)

\* a limit taken from the query as it is, absent meaning u16::MAX
limit_unwrap_or(lifetime) ==
    IF lifetime = None THEN U16_MAX ELSE lifetime[2]

\* load, lines 113-116
load_limit(lifetime) ==
    IF lifetime = None THEN U16_MAX
    ELSE IF lifetime[2] = U32(0) THEN U16_MAX ELSE lifetime[2]

\* load_json, lines 126-129
load_json_limit(lifetime) ==
    IF lifetime = None THEN U16_MAX
    ELSE IF lifetime[2] = U32(0) THEN U16_MAX ELSE lifetime[2]

\* write, lines 138-141
write_limit(lifetime) ==
    IF lifetime = None THEN U16_MAX
    ELSE IF lifetime[2] = U32(0) THEN U16_MAX ELSE lifetime[2]

\* write_string, lines 148-151
write_string_limit(lifetime) ==
    IF lifetime = None THEN U16_MAX
    ELSE IF lifetime[2] = U32(0) THEN U16_MAX ELSE lifetime[2]

Routes == {"/write", "/write-string", "/load", "/load-json"}

\* the call on the store the handler of a request makes; the request's key
\* and body are in key and value, its lifetime in lifetime
handler_call(request) ==
    CASE request.route = "/write" ->
           NewCall("write", request.key, request.value,
                   write_limit(request.lifetime), "", <<>>)
      [] request.route = "/write-string" ->
           NewCall("write", request.key, request.value,
                   write_string_limit(request.lifetime), "", <<>>)
      [] request.route = "/load" ->
           NewCall("load", <<>>, <<>>, load_limit(request.lifetime), "",
                   dump_entry(request.key, request.value))
      [] request.route = "/load-json" ->
           NewCall("load_json", <<>>, <<>>, load_json_limit(request.lifetime), "",
                   <<<<request.key, encode(request.value)>>>>)

Handle(c) ==
    /\ calls[c].pc = "done"
    /\ script[c] # <<>>
    /\ Head(script[c]).op = "request"
    /\ calls' = [calls EXCEPT ![c] = handler_call(Head(script[c]))]
    /\ script' = [script EXCEPT ![c] = Tail(@)]
    /\ UNCHANGED <<data_partitions, data_locks, regex_partitions, regex_locks,
                   spawned, started, scenario>>

Mark(op) == NewCall(op, <<>>, <<>>, U32(0), "", <<>>)

KeyCall(op, key) == NewCall(op, key, <<>>, U32(0), "", <<>>)

WriteCall(key, value, limit) == NewCall("write", key, value, U32(limit), "", <<>>)

Repeat(x, n) == [i \in 1..n |-> x]

NoScript == [c \in Clients |-> <<>>]

\* write(k, v, L), L consuming reads, and one more read once the removal
\* has run; another client works on another key of the same partition
InitExpire ==
    \E v \in Values, L \in 1..MaxReads, first \in BOOLEAN :
       /\ data_partitions =
            IF first THEN StoreOf(EmptyMap)
            ELSE StoreOf([k \in {KeyTa} |-> Entry(<<9>>, U32(1))])
       /\ spawned = EmptyBag
       /\ calls = [c \in Clients |-> Idle]
       /\ script = [NoScript EXCEPT
            ![1] = <<WriteCall(KeyTa, v, L)>> \o Repeat(KeyCall("read", KeyTa), L)
                     \o <<Mark("wait"), KeyCall("read", KeyTa)>>,
            ![2] = <<WriteCall(KeyTc, <<7>>, 2), KeyCall("safe_read", KeyTc),
                     KeyCall("read", KeyTc), KeyCall("lifetime_read", KeyTc),
                     KeyCall("remove", KeyTc)>>]
       /\ scenario = [name |-> "expire", key |-> KeyTa, value |-> v, limit |-> L]

\* T concurrent consuming reads of a key whose counter is T
InitRace ==
    \E v \in Values, T \in 1..MaxReads :
       /\ data_partitions = StoreOf([k \in {KeyTa} |-> Entry(v, U32(T))])
       /\ spawned = EmptyBag
       /\ calls = [c \in Clients |-> Idle]
       /\ script = [c \in Clients |->
                      IF c <= T THEN <<KeyCall("read", KeyTa)>> ELSE <<>>]
       /\ scenario = [name |-> "race", key |-> KeyTa, value |-> v, readers |-> T]

\* contents over the four keys, each entry with a value and a counter
Contents(keys, values, limits) ==
    UNION {[dom -> {Entry(v, U32(l)) : v \in values, l \in limits}] :
             dom \in SUBSET keys}

\* match_remove(pattern, limit) on a store at rest, then all removals run
InitBulk ==
    \E f \in Contents(AllKeys, {<<7>>}, {2}), limit \in 1..(MaxReads + 1) :
       /\ data_partitions = StoreOf(f)
       /\ spawned = EmptyBag
       /\ calls = [c \in Clients |-> Idle]
       /\ script = [NoScript EXCEPT
            ![1] = <<MatchRemoveCall("^t", limit), Mark("wait")>>]
       /\ scenario = [name |-> "bulk", store |-> f, pattern |-> "^t",
                      limit |-> limit]

\* clean() has been called, all_keys() follows, and there is no writer;
\* removals other calls spawned may be pending
InitClear ==
    \E f \in Contents(AllKeys, {<<7>>}, {2}), pending \in SUBSET {KeyTa, KeyX} :
       /\ data_partitions = StoreOf(f)
       /\ spawned = SetToBag({Task("remove", k, <<>>, U32(0)) : k \in pending})
       /\ calls = [[c \in Clients |-> Idle] EXCEPT ![1] = Mark("clean")]
       /\ script = [NoScript EXCEPT ![1] = <<Mark("all_keys")>>]
       /\ scenario = [name |-> "clear", store |-> f, pending |-> pending]

\* a non-ASCII key: U+00E9
KeyE == <<195, 169>>

\* dump(), a restart, load of the dumped bytes with default limit D,
\* then all writes run
InitRoundTrip ==
    \E f \in Contents({KeyTa, KeyTc, KeyE}, {<<>>, <<0, 255>>}, {0, 3}),
       D \in {1, 65535} :
       /\ data_partitions = StoreOf(f)
       /\ spawned = EmptyBag
       /\ calls = [c \in Clients |-> Idle]
       /\ script = [NoScript EXCEPT
            ![1] = <<Mark("dump"), Mark("restart"),
                     [Mark("load_dumped") EXCEPT !.limit = U32(D)], Mark("wait")>>]
       /\ scenario = [name |-> "roundtrip", store |-> f, limit |-> D]

\* texts that are not base64 without padding: "Bw==" (padded), "B" (one
\* character left over), "Bx" (bits left over), "!!" (not of the alphabet)
Malformed == {encode_padded(<<7>>), <<66>>, <<66, 120>>, <<33, 33>>}

\* dump_json(), a restart, load_json of the dumped map with default limit
\* 65535, the payload holding one more entry, of malformed text, or none
InitJson ==
    \E f \in Contents({KeyTa, KeyE}, {<<>>, <<0, 255>>, <<250, 7, 66, 1>>}, {3}),
       injected \in {<<>>} \cup {<<<<KeyX, t>>>> : t \in Malformed} :
       /\ data_partitions = StoreOf(f)
       /\ spawned = EmptyBag
       /\ calls = [c \in Clients |-> Idle]
       /\ script = [NoScript EXCEPT
            ![1] = <<Mark("dump_json"), Mark("restart"),
                     [Mark("load_json_dumped") EXCEPT !.limit = U32(65535),
                                                      !.input = injected]>>]
       /\ scenario = [name |-> "json", store |-> f, limit |-> 65535,
                      injected |-> injected]

\* the ends of a dump cut short: in the key length, in the key, in the
\* value length, in the value; the last three declare a length of which
\* fewer bytes follow: 2^32, and 2^64 - 1 for a key and for a value
TruncatedTails ==
    {<<0, 0, 0>>,
     to_be_bytes(2) \o <<116>>,
     to_be_bytes(1) \o KeyX \o <<0, 0, 0, 0>>,
     to_be_bytes(1) \o KeyX \o to_be_bytes(3) \o <<9>>,
     <<0, 0, 0, 1, 0, 0, 0, 0>> \o <<116>>,
     Repeat(255, 8) \o <<116>>,
     to_be_bytes(1) \o KeyX \o Repeat(255, 8) \o <<9>>}

\* the complete records a truncated dump starts with
CompleteRecords ==
    {<<>>, <<[key |-> KeyTa, value |-> <<7>>]>>,
     <<[key |-> KeyTa, value |-> <<7>>], [key |-> KeyTc, value |-> <<>>]>>}

RECURSIVE dump_records(_)
dump_records(records) ==
    IF records = <<>> THEN <<>>
    ELSE dump_entry(Head(records).key, Head(records).value)
           \o dump_records(Tail(records))

\* load of complete records followed by a truncated one, then all writes run
InitTruncated ==
    \E records \in CompleteRecords, tail \in TruncatedTails :
       /\ data_partitions = StoreOf(EmptyMap)
       /\ spawned = EmptyBag
       /\ calls = [c \in Clients |-> Idle]
       /\ script = [NoScript EXCEPT
            ![1] = <<NewCall("load", <<>>, <<>>, U32(5), "",
                             dump_records(records) \o tail),
                     Mark("wait")>>]
       /\ scenario = [name |-> "truncated", records |-> records, tail |-> tail]

\* DataRepository::new(data_partition_count, regex_partition_count, ..)
\* with a count of zero, then a write, a read and a match_remove
InitZero ==
    \E counts \in {<<0, regex_partition_count>>, <<partition_count, 0>>, <<0, 0>>} :
       /\ data_partitions = NewDataPartitions(counts[1])
       /\ data_locks = [p \in 0..(counts[1] - 1) |-> Unlocked]
       /\ regex_partitions = NewRegexPartitions(counts[2])
       /\ regex_locks = [p \in 0..(counts[2] - 1) |-> FALSE]
       /\ started = 0
       /\ spawned = EmptyBag
       /\ calls = [c \in Clients |-> Idle]
       /\ script = [NoScript EXCEPT
            ![1] = <<WriteCall(KeyTa, <<7>>, 2), KeyCall("read", KeyTa)>>,
            ![2] = <<MatchRemoveCall("^t", 1)>>]
       /\ scenario = [name |-> "zero", data_partition_count |-> counts[1],
                      regex_partition_count |-> counts[2]]

\* the last consuming read of an entry, then write(k, v, L) of a new entry
\* under the same key; no other call
InitStale ==
    \E L \in 1..MaxReads :
       /\ data_partitions = StoreOf([k \in {KeyTa} |-> Entry(<<9>>, U32(1))])
       /\ spawned = EmptyBag
       /\ calls = [c \in Clients |-> Idle]
       /\ script = [NoScript EXCEPT
            ![1] = <<KeyCall("read", KeyTa), WriteCall(KeyTa, <<7>>, L)>>]
       /\ scenario = [name |-> "stale", key |-> KeyTa, value |-> <<7>>,
                      limit |-> L]

\* the values of the lifetime query parameter
Lifetimes ==
    {None, Some(U32(0)), Some(U32(1)), Some(U32(65535)), Some(<<1, 0>>),
     Some(<<65535, 65535>>)}

\* a request to one of the writing handlers, then all writes run
InitRequest ==
    \E route \in Routes, lifetime \in Lifetimes :
       /\ data_partitions = StoreOf(EmptyMap)
       /\ spawned = EmptyBag
       /\ calls = [c \in Clients |-> Idle]
       /\ script = [NoScript EXCEPT
            ![1] = <<[op |-> "request", route |-> route, key |-> KeyE,
                      value |-> <<104, 105>>, lifetime |-> lifetime],
                     Mark("wait")>>]
       /\ scenario = [name |-> "request", route |-> route, key |-> KeyE,
                      lifetime |-> lifetime]

\* the caches earlier get_regex calls can have left in a partition of
\* capacity regex_partition_capacity: patterns that compile, without
\* repetition, the most recently used first
Caches ==
    UNION {Orders(S) : S \in {T \in SUBSET {"^t", "x", "a"} :
                                  Cardinality(T) <= regex_partition_capacity}}

\* match_remove calls on an empty store: two in a row by one client, one
\* by another
InitLru ==
    \E cache \in Caches, p1, p2 \in {"^t", "x", "a", "("} :
       /\ data_partitions = StoreOf(EmptyMap)
       /\ data_locks = [p \in 0..(partition_count - 1) |-> Unlocked]
       /\ regex_partitions =
            [NewRegexPartitions(regex_partition_count) EXCEPT
               ![HashPattern("a") % regex_partition_count] = cache]
       /\ regex_locks = [p \in 0..(regex_partition_count - 1) |-> FALSE]
       /\ started = 0
       /\ spawned = EmptyBag
       /\ calls = [c \in Clients |-> Idle]
       /\ script = [NoScript EXCEPT
            ![1] = <<MatchRemoveCall(p1, 1), MatchRemoveCall(p2, 1)>>,
            ![2] = <<MatchRemoveCall("a", 1)>>]
       /\ scenario = [name |-> "lru", cache |-> cache, first |-> p1,
                      second |-> p2]

\* keys that are not UTF-8: a byte that never occurs, a lead byte without
\* its continuation, an overlong encoding
BadKeys == {<<255>>, <<195>>, <<192, 128>>}

\* load of a record whose key is not text, followed by records or by
\* nothing, then all writes run; resumed is the input from the malformed
\* record's value length on
InitBadKey ==
    \E bad \in BadKeys, v \in Values,
       rest \in {<<>>, dump_entry(KeyTa, <<7>>),
                 dump_entry(KeyTa, <<7>>) \o dump_entry(KeyX, <<>>)} :
       /\ data_partitions = StoreOf(EmptyMap)
       /\ spawned = EmptyBag
       /\ calls = [c \in Clients |-> Idle]
       /\ script = [NoScript EXCEPT
            ![1] = <<NewCall("load", <<>>, <<>>, U32(5), "",
                             dump_entry(bad, v) \o rest),
                     Mark("wait")>>]
       /\ scenario = [name |-> "badkey", bad |-> bad,
                      resumed |-> to_be_bytes(Len(v)) \o v \o rest]

\* load of records of which the first and the last have the same key, then
\* all writes run
InitDuplicates ==
    \E v1, v2 \in Values, between \in {<<>>, dump_entry(KeyX, <<7>>)} :
       /\ v1 # v2
       /\ data_partitions = StoreOf(EmptyMap)
       /\ spawned = EmptyBag
       /\ calls = [c \in Clients |-> Idle]
       /\ script = [NoScript EXCEPT
            ![1] = <<NewCall("load", <<>>, <<>>, U32(5), "",
                             dump_entry(KeyTa, v1) \o between
                               \o dump_entry(KeyTa, v2)),
                     Mark("wait")>>]
       /\ scenario = [name |-> "duplicates", key |-> KeyTa, last |-> v2,
                      records |-> IF between = <<>> THEN 2 ELSE 3]

ScriptedInit ==
    \/ /\ Quiet
       /\ \/ InitExpire \/ InitRace \/ InitBulk \/ InitClear \/ InitRoundTrip
          \/ InitJson \/ InitTruncated \/ InitStale \/ InitRequest
          \/ InitBadKey \/ InitDuplicates
    \/ InitZero
    \/ InitLru

ScriptedNext ==
    \/ \E c \in Clients : ScriptCall(c) \/ Wait(c) \/ Restart(c) \/ LoadDumped(c)
    \/ \E c \in Clients : LoadJsonDumped(c)
    \/ \E c \in Clients : JsonStep(c)
    \/ \E c \in Clients : route_panic(c)
    \/ \E c \in Clients : Handle(c)
    \/ Run

ScriptedSpec == ScriptedInit /\ [][ScriptedNext]_vars

(***************************************************************************)
(* The fair specification: two clients run every operation against one    *)
(* another on the same keys, under fair scheduling.                        *)
(***************************************************************************)
\* consuming reads, a bulk removal and a load spawn detached tasks on the
\* partition of "ta" while the other client reads, writes, removes and
\* clears there
InitContend ==
    /\ data_partitions =
         StoreOf([k \in {KeyTa, KeyX} |-> Entry(<<7>>, U32(1))])
    /\ spawned = EmptyBag
    /\ calls = [c \in Clients |-> Idle]
    /\ script = [NoScript EXCEPT
         ![1] = <<KeyCall("read", KeyTa), MatchRemoveCall("^t", 1),
                  WriteCall(KeyTa, <<>>, 1), Mark("dump"),
                  KeyCall("safe_read", KeyTa)>>,
         ![2] = <<NewCall("load", <<>>, <<>>, U32(1), "", dump_entry(KeyTa, <<7>>)),
                  KeyCall("lifetime_read", KeyTa), KeyCall("remove", KeyTc),
                  Mark("clean"), Mark("all_keys")>>]
    /\ scenario = [name |-> "contend"]

FairInit == Quiet /\ InitContend

FairNext == (\E c \in Clients : ScriptCall(c)) \/ Run

\* The runtime polls every task that can go on, and the RwLock hands the
\* lock to its waiters in turn: a task that can take a step is not left
\* out for ever.  Nothing obliges a client to call.
FairSpec == FairInit /\ [][FairNext]_vars /\ WF_vars(Run)

(***************************************************************************)
(* Properties.                                                             *)
(***************************************************************************)
Returned(c, op) == calls[c].op = op /\ calls[c].pc = "done"

\* c takes a step of the body of its call
Steps(c) == calls[c].pc # "done" /\ calls'[c] # calls[c]

\* detached task t runs its body in this step
Runs(t) ==
    /\ BagIn(t, spawned)
    /\ t.pc = "locked"
    /\ spawned' = (spawned (-) SetToBag({t})) (+) SetToBag({Finished(t)})

\* what lifetime_read(key) and safe_read(key) return in this state
LifetimeOf(key) == limit_of(data_partitions[PartitionOf(key)], key)

ValueOf(key) == value_of(data_partitions[PartitionOf(key)], key)

\* the same, in the state a step leads to
LifetimeAfter(key) == limit_of(data_partitions'[PartitionOf(key)], key)

ValueAfter(key) == value_of(data_partitions'[PartitionOf(key)], key)

\* the detached removals of key spawned so far
Removals(key) ==
    LET ts == {t \in BagToSet(spawned) : t.op = "remove" /\ t.key = key}
        RECURSIVE Sum(_)
        Sum(S) == IF S = {} THEN 0
                  ELSE LET t == CHOOSE x \in S : TRUE
                       IN CopiesIn(t, spawned) + Sum(S \ {t})
    IN Sum(ts)

Min(a, b) == IF a <= b THEN a ELSE b

\* C1: after write(k, v, L), with no other operation on k, each of the next
\* L consuming reads returns v, and a read issued once the removal the
\* L-th read scheduled has run returns not-found.
C1_ReadsThenExpires ==
    (scenario.name = "expire" /\ Returned(1, "read")) =>
        IF Len(script[1]) >= 2
        THEN calls[1].ret = Some(scenario.value)
        ELSE script[1] = <<>> /\ calls[1].ret = None

C1_Witness ==
    /\ scenario.name = "expire"
    /\ scenario.limit = MaxReads
    /\ Returned(1, "read")
    /\ script[1] = <<>>
    /\ calls[1].ret = None

DoneReads == {c \in Clients : Returned(c, "read")}

\* C2: of T concurrent consuming reads of a key whose counter is T, all
\* return the value, and exactly one (the one that brings the counter to
\* zero) schedules a removal: none is scheduled before the last read, one
\* after it.
C2_ExactlyOneSchedules ==
    scenario.name = "race" =>
        /\ \A c \in DoneReads : calls[c].ret = Some(scenario.value)
        /\ Removals(scenario.key) =
             IF Cardinality(DoneReads) = scenario.readers THEN 1 ELSE 0

C2_Witness ==
    /\ scenario.name = "race"
    /\ scenario.readers = MaxReads
    /\ Cardinality(DoneReads) = MaxReads
    /\ Removals(scenario.key) = 1

\* C3: the counter of a present entry never wraps: it never exceeds the
\* largest limit written, and lifetime_read never returns more than that.
C3_NeverWraps ==
    /\ \A k \in DOMAIN Entries :
         \E l \in WrittenLimits : U32Leq(Entries[k].limit, U32(l))
    /\ \A c \in Clients :
         (Returned(c, "lifetime_read") /\ calls[c].ret # None) =>
            \E l \in WrittenLimits : U32Leq(calls[c].ret[2], U32(l))

\* C4: the step in which write(k, v, L) stores its entry, in a caller's
\* task or a detached one, leaves lifetime_read(k) = L and safe_read(k) = v,
\* whatever entry k had before.
C4_WriteSetsEntry ==
    [][/\ \A c \in Clients :
            (calls[c].op = "write" /\ calls[c].pc = "locked" /\ Steps(c)) =>
               /\ LifetimeAfter(calls[c].key) = Some(calls[c].limit)
               /\ ValueAfter(calls[c].key) = Some(calls[c].value)
       /\ \A t \in BagToSet(spawned) :
            (t.op = "write" /\ Runs(t)) =>
               /\ LifetimeAfter(t.key) = Some(t.limit)
               /\ ValueAfter(t.key) = Some(t.value)]_vars

\* a write has replaced the entry of KeyX, <<7>> with counter 1, of the
\* third initial store
C4_Witness ==
    /\ \E c \in Clients : Returned(c, "write")
    /\ KeyTa \in DOMAIN Entries /\ Entries[KeyTa] = Entry(<<>>, U32(2))
    /\ KeyX \in DOMAIN Entries /\ Entries[KeyX] = Entry(<<>>, U32(0))

\* C5: no step of safe_read or lifetime_read changes an entry, a counter,
\* the set of keys, the detached tasks or the regex cache; so lifetime_read
\* of any key returns the same before and after.
C5_ReadsAreFrameSafe ==
    [][\A c \in Clients :
          (calls[c].op \in {"safe_read", "lifetime_read"} /\ Steps(c)) =>
             /\ UNCHANGED <<data_partitions, spawned, regex_partitions>>
             /\ \A k \in AllKeys : LifetimeAfter(k) = LifetimeOf(k)]_vars

C5_Witness ==
    \E c, d \in Clients :
       /\ Returned(c, "safe_read") /\ calls[c].ret # None
       /\ Returned(d, "lifetime_read") /\ calls[d].ret # None

Matching(f, pattern) == {k \in DOMAIN f : is_match(pattern, k)}

\* C6: on a store at rest holding m matching keys, match_remove(pattern,
\* limit) with limit >= 1 returns min(limit, m); once its removals have run,
\* m - min(limit, m) matching keys remain; non-matching entries are
\* untouched throughout.
C6_BulkRemove ==
    scenario.name = "bulk" =>
        LET m == Cardinality(Matching(scenario.store, scenario.pattern))
            n == Min(scenario.limit, m)
        IN /\ Returned(1, "match_remove") => calls[1].ret = Ok(n)
           /\ Returned(1, "wait") =>
                 /\ Cardinality(Matching(Entries, scenario.pattern)) = m - n
                 /\ DOMAIN Entries \subseteq DOMAIN scenario.store
           /\ \A k \in DOMAIN scenario.store \ Matching(scenario.store, scenario.pattern) :
                 k \in DOMAIN Entries /\ Entries[k] = scenario.store[k]

\* three matching keys and limit 2: one matching key remains
C6_Witness ==
    /\ scenario.name = "bulk"
    /\ Cardinality(DOMAIN scenario.store) = 4
    /\ scenario.limit = 2
    /\ Returned(1, "wait")
    /\ Cardinality(Matching(Entries, scenario.pattern)) = 1

\* C7: match_remove never returns a count above the limit it was given,
\* limit 0 included.
C7_RespectsLimit ==
    [][\A c \in Clients :
          (calls[c].op = "match_remove" /\ Steps(c) /\ calls'[c].pc = "done"
             /\ calls'[c].ret[1] = "Ok") =>
                calls'[c].ret[2] <= calls[c].cap]_vars

\* C8, as claimed: with no writer, clean() called on a store of N entries
\* returns N and leaves every partition empty, whatever removals are pending.
C8_ReturnsN ==
    (scenario.name = "clear" /\ Returned(1, "clean")) =>
        /\ calls[1].ret = Usize(Cardinality(DOMAIN scenario.store))
        /\ DOMAIN Entries = {}

\* C8, amended: with no writer, when clean() returns every partition is
\* empty and all_keys() then returns no key, whatever removals are pending;
\* clean() returns N when no removal is pending, and otherwise at most N and
\* at least N minus the number of entries with a pending removal.
C8_EmptyAtReturn ==
    scenario.name = "clear" =>
        LET N == Cardinality(DOMAIN scenario.store)
            P == Cardinality(scenario.pending \cap DOMAIN scenario.store)
        IN /\ Returned(1, "clean") =>
                /\ DOMAIN Entries = {}
                /\ calls[1].ret[1] = "usize"
                /\ calls[1].ret[2] <= N
                /\ calls[1].ret[2] >= N - P
           /\ Returned(1, "all_keys") =>
                /\ calls[1].ret = <<"keys", <<>>>>
                /\ DOMAIN Entries = {}

\* a pending removal ran before clean() reached its partition
C8_Witness ==
    /\ scenario.name = "clear"
    /\ Cardinality(DOMAIN scenario.store) = 4
    /\ scenario.pending = {KeyTa, KeyX}
    /\ Returned(1, "clean")
    /\ calls[1].ret = Usize(2)
    /\ DOMAIN Entries = {}

\* C9: a match_remove whose pattern does not compile takes the regex
\* mutex, returns the syntax error, and changes nothing else: no data
\* partition is locked, no entry, counter or task changes, and the regex
\* cache keeps its patterns and their order.
C9_BadPatternDoesNothing ==
    [][\A c \in Clients :
          (calls[c].op = "match_remove" /\ ~Compiles(calls[c].pattern)
             /\ Steps(c)) =>
                /\ UNCHANGED <<data_partitions, data_locks, spawned,
                               regex_partitions>>
                /\ \/ calls'[c] = [calls[c] EXCEPT !.pc = "regex_locked"]
                   \/ /\ calls'[c].pc = "done"
                      /\ calls'[c].ret = Err(calls[c].pattern)]_vars

C9_Witness ==
    /\ \E c \in Clients : Returned(c, "match_remove") /\ calls[c].ret = Err("(")
    /\ regex_partitions[0] = <<"^t">>

\* C10: load(dump(S), D) into an empty store returns |S|, and once the
\* writes it spawned have run the store holds the keys and values of S,
\* every counter being D.
C10_RoundTrip ==
    scenario.name = "roundtrip" =>
        /\ Returned(1, "load") =>
              calls[1].ret = Usize(Cardinality(DOMAIN scenario.store))
        /\ Returned(1, "wait") =>
              Entries = [k \in DOMAIN scenario.store |->
                           Entry(scenario.store[k].value, U32(scenario.limit))]

C10_Witness ==
    /\ scenario.name = "roundtrip"
    /\ Cardinality(DOMAIN scenario.store) = 3
    /\ \E k \in DOMAIN scenario.store : scenario.store[k].value = <<0, 255>>
    /\ scenario.limit = 65535
    /\ Returned(1, "wait")
    /\ Cardinality(DOMAIN Entries) = 3

\* C11: load_json(dump_json(S), D) into an empty store, the payload holding
\* besides the dumped entries possibly one whose text is not base64: at
\* return the count is |S| (the malformed entry is not counted) and the
\* store holds exactly the keys and values of S, every counter being D (the
\* malformed entry is not written).
C11_JsonRoundTrip ==
    (scenario.name = "json" /\ Returned(1, "load_json")) =>
        /\ calls[1].ret = Usize(Cardinality(DOMAIN scenario.store))
        /\ Entries = [k \in DOMAIN scenario.store |->
                        Entry(scenario.store[k].value, U32(scenario.limit))]

C11_Witness ==
    /\ scenario.name = "json"
    /\ scenario.injected = <<<<KeyX, <<66, 120>>>>>>
    /\ Returned(1, "load_json")
    /\ calls[1].ret = Usize(2)
    /\ KeyE \in DOMAIN Entries /\ Entries[KeyE].value = <<250, 7, 66, 1>>
    /\ KeyTa \in DOMAIN Entries /\ Entries[KeyTa].value = <<0, 255>>

\* C12: load of c complete records followed by a truncated record returns
\* c, never panics, and spawns the writes of exactly those c records, which
\* store them; nothing is stored for the truncated record.
C12_TruncationIsGraceful ==
    scenario.name = "truncated" =>
        /\ Returned(1, "load") =>
              /\ calls[1].ret = Usize(Len(scenario.records))
              /\ BagCardinality(spawned) = Len(scenario.records)
              /\ \A t \in BagToSet(spawned) : t.op = "write"
              /\ {t.key : t \in BagToSet(spawned)} =
                   {r.key : r \in Range(scenario.records)}
        /\ Returned(1, "wait") =>
              /\ DOMAIN Entries = {r.key : r \in Range(scenario.records)}
              /\ \A r \in Range(scenario.records) :
                    Entries[r.key] = Entry(r.value, U32(5))

\* C13: a store constructed with a partition count of zero has the default
\* number of partitions, 16, for its data and for its regex cache alike, so
\* that every call on it routes its key or pattern and returns without a
\* division by zero.
C13_ZeroMeansDefault ==
    scenario.name = "zero" =>
        \A c \in Clients :
           (calls[c].op # "idle" /\ calls[c].pc = "done") =>
              /\ calls[c].ret # Panic
              /\ data_size = IF scenario.data_partition_count = 0
                             THEN DEFAULT_PARTITION_COUNT
                             ELSE scenario.data_partition_count
              /\ regex_size = IF scenario.regex_partition_count = 0
                              THEN DEFAULT_PARTITION_COUNT
                              ELSE scenario.regex_partition_count

\* C14: an entry created by write(k, v, L) of which no read has consumed
\* anything, with no remove, match_remove or clean called, stays in the
\* store: the detached removal scheduled for the entry the key had before
\* does not delete it.
C14_NoStaleRemoval ==
    (scenario.name = "stale" /\ Returned(1, "write")) =>
        /\ scenario.key \in DOMAIN Entries
        /\ Entries[scenario.key] = Entry(scenario.value, U32(scenario.limit))

\* C15: in the write, write-string, load and load-json handlers the read
\* limit given to the store is never zero: it is 65535 when the lifetime
\* parameter is absent or 0, and the given value otherwise; the entry the
\* request stores has that counter.
C15_LimitNeverZero ==
    scenario.name = "request" =>
        LET given == scenario.lifetime
            expected == IF given = None \/ given = Some(<<0, 0>>)
                        THEN <<0, 65535>> ELSE given[2]
        IN /\ \A c \in Clients :
                 calls[c].op \in {"write", "load", "load_json"} /\ calls[c].pc # "done"
                    => calls[c].limit = expected /\ calls[c].limit # <<0, 0>>
           /\ \A t \in BagToSet(spawned) :
                 t.pc # "done" => t.limit = expected /\ t.limit # <<0, 0>>
           /\ \A k \in DOMAIN Entries :
                 Entries[k].limit = expected /\ Entries[k].limit # <<0, 0>>
           /\ Returned(1, "wait") => DOMAIN Entries = {scenario.key}

C15_Witness ==
    /\ scenario.name = "request"
    /\ scenario.route = "/load"
    /\ scenario.lifetime = Some(<<0, 0>>)
    /\ Returned(1, "wait")
    /\ Entries[scenario.key] = Entry(<<104, 105>>, <<0, 65535>>)

\* the data partition whose lock call c is at
LockedPartition(c) ==
    IF calls[c].op \in CrossOps \cup {"clean"} THEN calls[c].idx
    ELSE PartitionOf(calls[c].key)

\* the data locks of partition p the tasks at a position inside a guard's
\* scope account for, one each
GuardsOf(p) ==
    Cardinality({c \in Clients : calls[c].pc = "locked" /\ LockedPartition(c) = p})
    + BagCardinality(
        BagOfAll(LAMBDA t : t.key,
                 [t \in {u \in BagToSet(spawned) :
                            u.pc = "locked" /\ PartitionOf(u.key) = p}
                    |-> CopiesIn(t, spawned)]))

\* C16: a task holds at most one partition lock.  Every lock taken is held
\* by a task that is inside the scope of that one guard: the locks of each
\* data partition are as many as the tasks at such a position for that
\* partition, a regex lock is held exactly by the one call inside get_regex
\* on it, and a writer excludes readers.  So a cross-partition operation has
\* released a partition before it takes the next, and match_remove holds no
\* regex lock when it takes a data lock.
C16_OneLockPerTask ==
    /\ \A p \in DOMAIN data_partitions :
          /\ data_locks[p].readers + (IF data_locks[p].writer THEN 1 ELSE 0)
                = GuardsOf(p)
          /\ data_locks[p].writer => data_locks[p].readers = 0
    /\ \A rp \in DOMAIN regex_partitions :
          Cardinality({c \in Clients : calls[c].pc = "regex_locked"
                                          /\ RegexPartitionOf(calls[c].pattern) = rp})
            = IF regex_locks[rp] THEN 1 ELSE 0

\* match_remove scans the second partition while a removal it spawned in
\* the first one runs there
C16_Witness ==
    /\ \E c \in Clients :
          calls[c].op = "match_remove" /\ calls[c].pc = "locked" /\ calls[c].idx = 1
    /\ data_locks[1].readers = 1
    /\ data_locks[0].writer
    /\ ~regex_locks[0]

\* C17: every regex cache partition holds at most its capacity of patterns.
\* The step in which get_regex looks pattern q up changes its partition
\* alone: on a hit q becomes the most recently used, the other patterns
\* keeping their order; on a miss that compiles q is inserted as the most
\* recently used and, the partition being full, exactly its least recently
\* used pattern goes; on a miss that does not compile nothing changes.  No
\* other step changes a cache.
C17_BoundedLru ==
    [][/\ \A rp \in DOMAIN regex_partitions :
            Len(regex_partitions'[rp]) <= regex_partition_capacity
       /\ \A c \in Clients :
            (calls[c].pc = "regex_locked" /\ Steps(c)) =>
               LET q == calls[c].pattern
                   rp == RegexPartitionOf(q)
                   old == regex_partitions[rp]
                   others == SelectSeq(old, LAMBDA x : x # q)
                   full == Len(old) = regex_partition_capacity
               IN /\ \A o \in DOMAIN regex_partitions \ {rp} :
                       regex_partitions'[o] = regex_partitions[o]
                  /\ regex_partitions'[rp] =
                       IF q \in Range(old) THEN <<q>> \o others
                       ELSE IF q = "(" THEN old
                       ELSE IF full THEN <<q>> \o SubSeq(old, 1, Len(old) - 1)
                       ELSE <<q>> \o old
                  /\ q \in Range(old) => calls'[c].pc = "lock"
       /\ (\A c \in Clients : ~(calls[c].pc = "regex_locked" /\ Steps(c)))
             => UNCHANGED regex_partitions]_vars

\* a hit on "^t", the least recently used, then a miss on "a" that finds
\* the partition full: "x" has gone
C17_Witness ==
    /\ scenario.name = "lru"
    /\ scenario.cache = <<"x", "^t">>
    /\ scenario.first = "^t"
    /\ regex_partitions[0] = <<"a", "^t">>

\* C18: load of an input that starts with a record whose key is not text
\* neither counts nor writes that record, and goes on as a load of the
\* input from that record's value length on: those 8 bytes are read as the
\* next key length.  It returns the count of that parse and spawns its
\* writes, which store its entries.
C18_ResumesAtValueLength ==
    scenario.name = "badkey" =>
        LET r == load_loop(scenario.resumed, U32(5), 0, 0, <<>>)
            keys == {t.key : t \in Range(r.tasks)}
        IN /\ Returned(1, "load") =>
                 /\ calls[1].ret = Usize(r.enrolled)
                 /\ BagCardinality(spawned) = Len(r.tasks)
                 /\ {t.key : t \in BagToSet(spawned)} = keys
           /\ scenario.bad \notin DOMAIN Entries
           /\ Returned(1, "wait") => DOMAIN Entries = keys

\* the key "ta" of the record after the malformed one has been stored as
\* the value of the empty key, and that record's value as a key: one entry
\* counted
C18_Witness ==
    /\ scenario.name = "badkey"
    /\ scenario.bad = <<255>>
    /\ Returned(1, "wait")
    /\ DOMAIN Entries = {<<>>}
    /\ Entries[<<>>] = Entry(KeyTa, U32(5))

\* some call has not returned, or some detached task has not completed
Busy == (\E c \in Clients : calls[c].pc # "done") \/ ~AllDetachedDone

\* C19: under fair scheduling every call returns and every detached task
\* takes its lock and completes: from some point on nothing is left
\* running, so no state is reached in which the tasks left are all blocked.
C19_EverythingCompletes == <>[]~Busy

\* both clients have run their scripts to the end, and so have the three
\* or more tasks they spawned
C19_Witness ==
    /\ ~Busy
    /\ \A c \in Clients : script[c] = <<>>
    /\ BagCardinality(spawned) >= 3

\* C20: load of records of which several have the same key returns the
\* number of records, and once the writes it spawned have run the key has
\* the value of the last of its records, in whatever order they ran.
C20_LastRecordWins ==
    scenario.name = "duplicates" =>
        /\ Returned(1, "load") => calls[1].ret = Usize(scenario.records)
        /\ Returned(1, "wait") =>
              /\ scenario.key \in DOMAIN Entries
              /\ Entries[scenario.key] = Entry(scenario.last, U32(5))

====
